---- MODULE Spec2Model ----
(***************************************************************************)
(* Model of the dense-matrix engine of algebra-playground                  *)
(* (src/src/Matrix.cpp, src/include/Matrix.h): the elimination engine      *)
(* (forwardElimination, gaussianElimination) and the operations built on   *)
(* it (rank, determinant, inverse, solve).                                 *)
(*                                                                         *)
(* Elements are exact rationals <<n, d>> (d > 0, lowest terms): the        *)
(* properties checked here are stated over exact arithmetic, so the        *)
(* double arithmetic of the code is modelled by its exact value.  The      *)
(* EPSILON comparisons of the code are kept as comparisons against 1e-10.  *)
(***************************************************************************)
EXTENDS Integers, Sequences, FiniteSets, TLC

(***************************************************************************)
(* Bounds of the model.                                                    *)
(***************************************************************************)
MaxRows == 3
MaxCols == 3
MaxVal == 2
\* Shapes of at most this many elements are enumerated in full; a larger
\* shape is represented by the matrices whose rows are zero or unit rows.
MaxDenseCells == 9

\* Shapes whose elements range over -MaxVal..MaxVal; the other shapes
\* draw their elements from BinaryVals.
WideShapes == {<<1, 1>>, <<1, 2>>, <<2, 1>>, <<2, 2>>}
BinaryVals == {0, 1}

(***************************************************************************)
(* Exact arithmetic standing for the code's double.                        *)
(***************************************************************************)
Abs(x) == IF x < 0 THEN -x ELSE x

RECURSIVE Gcd(_, _)
Gcd(a, b0) == IF b0 = 0 THEN a ELSE Gcd(b0, a % b0)

Norm(n, d) ==
    LET s == IF d < 0 THEN -1 ELSE 1
        g == Gcd(Abs(n), Abs(d))
    IN  <<(s * n) \div g, (s * d) \div g>>

Q(n) == <<n, 1>>
Zero == <<0, 1>>
One == <<1, 1>>

RAdd(x, y) == Norm(x[1] * y[2] + y[1] * x[2], x[2] * y[2])
RNeg(x) == <<-x[1], x[2]>>
RSub(x, y) == RAdd(x, RNeg(y))
RMul(x, y) == Norm(x[1] * y[1], x[2] * y[2])
RDiv(x, y) == Norm(x[1] * y[2], x[2] * y[1])
RAbs(x) == <<Abs(x[1]), x[2]>>
RGt(x, y) == x[1] * y[2] > y[1] * x[2]

\* EPSILON = 1e-10 = 1 / (EpsInvRoot * EpsInvRoot)
EpsInvRoot == 100000

\* std::abs(x) < EPSILON  <=>  |n| * 10^10 < d
AbsLtEps(x) ==
    IF x[1] = 0 THEN TRUE
    ELSE (((x[2] - 1) \div Abs(x[1])) \div EpsInvRoot) \div EpsInvRoot >= 1

\* std::abs(x) > EPSILON  <=>  |n| * 10^10 > d
AbsGtEps(x) ==
    IF x[1] = 0 THEN FALSE
    ELSE ((x[2] \div Abs(x[1])) \div EpsInvRoot) \div EpsInvRoot = 0

(***************************************************************************)
(* Matrix: _rows, _cols and the flat row-major buffer _matrix.             *)
(***************************************************************************)
\* Matrix(rows, cols, initValue), for dimensions the constructor accepts
MatrixFill(rows, cols, initValue) ==
    [rows |-> rows, cols |-> cols, data |-> [k \in 1..(rows * cols) |-> initValue]]

\* Matrix(): the empty 0x0 matrix
MatrixDefault == [rows |-> 0, cols |-> 0, data |-> <<>>]

\* index(row, col), for indices inside the matrix; buffer slots count from 1
Index(M, row, col) == row * M.cols + col + 1

Get(M, row, col) == M.data[Index(M, row, col)]

RowOf(M, k) == (k - 1) \div M.cols
ColOf(M, k) == (k - 1) % M.cols

swapRows(M, row1, row2) ==
    IF row1 = row2 THEN M
    ELSE [M EXCEPT !.data = [k \in 1..(M.rows * M.cols) |->
            IF RowOf(M, k) = row1 THEN Get(M, row2, ColOf(M, k))
            ELSE IF RowOf(M, k) = row2 THEN Get(M, row1, ColOf(M, k))
            ELSE M.data[k]]]

identity(size) ==
    [rows |-> size, cols |-> size,
     data |-> [k \in 1..(size * size) |->
                 IF (k - 1) \div size = (k - 1) % size THEN One ELSE Zero]]

\* augment(right), for right.rows = M.rows
augment(M, right) ==
    LET w == M.cols + right.cols
    IN  [rows |-> M.rows, cols |-> w,
         data |-> [k \in 1..(M.rows * w) |->
                     LET i == (k - 1) \div w
                         j == (k - 1) % w
                     IN  IF j < M.cols THEN Get(M, i, j)
                         ELSE Get(right, i, j - M.cols)]]

RECURSIVE DotSum(_, _, _, _, _)
DotSum(M, other, row, col, k) ==
    IF k = 0 THEN Zero
    ELSE RAdd(DotSum(M, other, row, col, k - 1),
              RMul(Get(M, row, k - 1), Get(other, k - 1, col)))

\* mutant of MatMul: the inner loop stops one term early
MatMul_DropLast(M, other) ==
    [rows |-> M.rows, cols |-> other.cols,
     data |-> [k \in 1..(M.rows * other.cols) |->
                 DotSum(M, other, (k - 1) \div other.cols,
                        (k - 1) % other.cols, M.cols - 1)]]

\* the product computed by operator*(const Matrix&) once the dimensions agree
MatMul(M, other) ==
    [rows |-> M.rows, cols |-> other.cols,
     data |-> [k \in 1..(M.rows * other.cols) |->
                 DotSum(M, other, (k - 1) \div other.cols,
                        (k - 1) % other.cols, M.cols)]]

(***************************************************************************)
(* Elimination engine.  An elimination state holds the working copy        *)
(* (result), the companion (right, used when hasRight), the local swap     *)
(* counter and whether MatrixSingular was thrown.                          *)
(***************************************************************************)
\* mutant of PivotRow: among equal magnitudes the last row wins
RECURSIVE PivotRow_LastMax(_, _, _, _, _)
PivotRow_LastMax(M, i, k, maxEl, maxRow) ==
    IF k >= M.rows THEN maxRow
    ELSE LET v == RAbs(Get(M, k, i))
         IN  IF ~RGt(maxEl, v) THEN PivotRow_LastMax(M, i, k + 1, v, k)
             ELSE PivotRow_LastMax(M, i, k + 1, maxEl, maxRow)

\* partial pivoting: the scan of rows k..n-1 of column i
RECURSIVE PivotRow(_, _, _, _, _)
PivotRow(M, i, k, maxEl, maxRow) ==
    IF k >= M.rows THEN maxRow
    ELSE LET v == RAbs(Get(M, k, i))
         IN  IF RGt(v, maxEl) THEN PivotRow(M, i, k + 1, v, k)
             ELSE PivotRow(M, i, k + 1, maxEl, maxRow)

\* "Eliminate below pivot" on the working copy: columns i..m-1 of rows k > i
EliminateBelow(M, i) ==
    [M EXCEPT !.data = [x \in 1..(M.rows * M.cols) |->
        LET k == RowOf(M, x)
            j == ColOf(M, x)
        IN  IF k > i /\ j >= i
            THEN LET c == RNeg(RDiv(Get(M, k, i), Get(M, i, i)))
                 IN  RAdd(M.data[x], RMul(c, Get(M, i, j)))
            ELSE M.data[x]]]

\* the same row combinations on the companion: every column of rows k > i,
\* with the factors c taken from the working copy M
EliminateBelowRight(M, R, i) ==
    [R EXCEPT !.data = [x \in 1..(R.rows * R.cols) |->
        LET k == RowOf(R, x)
            j == ColOf(R, x)
        IN  IF k > i
            THEN LET c == RNeg(RDiv(Get(M, k, i), Get(M, i, i)))
                 IN  RAdd(R.data[x], RMul(c, Get(R, i, j)))
            ELSE R.data[x]]]

\* mutant of ForwardStep: a near-zero pivot is always skipped, never thrown
ForwardStep_NoThrow(st, i, throwOnZeroPivot) ==
    LET maxRow == PivotRow(st.result, i, i + 1, RAbs(Get(st.result, i, i)), i)
    IN  IF AbsLtEps(RAbs(Get(st.result, maxRow, i)))
        THEN st
        ELSE LET sw == swapRows(st.result, i, maxRow)
                 swR == IF st.hasRight THEN swapRows(st.right, i, maxRow) ELSE st.right
             IN  [st EXCEPT
                    !.result = EliminateBelow(sw, i),
                    !.right = IF st.hasRight THEN EliminateBelowRight(sw, swR, i) ELSE swR,
                    !.swapCount = IF maxRow # i THEN @ + 1 ELSE @]

\* one iteration of the loop over pivot positions i
ForwardStep(st, i, throwOnZeroPivot) ==
    LET maxRow == PivotRow(st.result, i, i + 1, RAbs(Get(st.result, i, i)), i)
    IN  IF AbsLtEps(RAbs(Get(st.result, maxRow, i)))
        THEN IF throwOnZeroPivot THEN [st EXCEPT !.singular = TRUE] ELSE st
        ELSE LET sw == swapRows(st.result, i, maxRow)
                 swR == IF st.hasRight THEN swapRows(st.right, i, maxRow) ELSE st.right
             IN  [st EXCEPT
                    !.result = EliminateBelow(sw, i),
                    !.right = IF st.hasRight THEN EliminateBelowRight(sw, swR, i) ELSE swR,
                    !.swapCount = IF maxRow # i THEN @ + 1 ELSE @]

RECURSIVE ForwardLoop(_, _, _, _)
ForwardLoop(st, i, lim, throwOnZeroPivot) ==
    IF i >= lim \/ st.singular THEN st
    ELSE ForwardLoop(ForwardStep(st, i, throwOnZeroPivot), i + 1, lim, throwOnZeroPivot)

Min(a, b0) == IF a < b0 THEN a ELSE b0

forwardElimination(M, right, hasRight, throwOnZeroPivot) ==
    ForwardLoop([result |-> M, right |-> right, hasRight |-> hasRight,
                 swapCount |-> 0, singular |-> FALSE],
                0, Min(M.rows, M.cols), throwOnZeroPivot)

\* "Find pivot column in this row": first j >= j0 with |result(i,j)| > EPSILON, else -1
RECURSIVE PivotCol(_, _, _)
PivotCol(M, i, j) ==
    IF j >= M.cols THEN -1
    ELSE IF AbsGtEps(RAbs(Get(M, i, j))) THEN j
    ELSE PivotCol(M, i, j + 1)

\* mutant of NormalizeRow: the division starts after the pivot column
NormalizeRow_AfterPivot(M, i, pc, pivot) ==
    [M EXCEPT !.data = [x \in 1..(M.rows * M.cols) |->
        IF RowOf(M, x) = i /\ ColOf(M, x) > pc THEN RDiv(M.data[x], pivot)
        ELSE M.data[x]]]

\* "Normalize pivot row": columns pc..m-1 of row i divided by the pivot
NormalizeRow(M, i, pc, pivot) ==
    [M EXCEPT !.data = [x \in 1..(M.rows * M.cols) |->
        IF RowOf(M, x) = i /\ ColOf(M, x) >= pc THEN RDiv(M.data[x], pivot)
        ELSE M.data[x]]]

\* mutant of NormalizeRowRight: the companion row is not divided
NormalizeRowRight_Skip(R, i, pivot) == R

NormalizeRowRight(R, i, pivot) ==
    [R EXCEPT !.data = [x \in 1..(R.rows * R.cols) |->
        IF RowOf(R, x) = i THEN RDiv(R.data[x], pivot) ELSE R.data[x]]]

\* mutant of EliminateOthers: only the rows below the pivot row are cleared
EliminateOthers_BelowOnly(M, i, pc) ==
    [M EXCEPT !.data = [x \in 1..(M.rows * M.cols) |->
        LET k == RowOf(M, x)
            j == ColOf(M, x)
            c == Get(M, k, pc)
        IN  IF k > i /\ ~AbsLtEps(RAbs(c)) /\ j >= pc
            THEN RSub(M.data[x], RMul(c, Get(M, i, j)))
            ELSE M.data[x]]]

\* "Eliminate other rows using this pivot" on the working copy
EliminateOthers(M, i, pc) ==
    [M EXCEPT !.data = [x \in 1..(M.rows * M.cols) |->
        LET k == RowOf(M, x)
            j == ColOf(M, x)
            c == Get(M, k, pc)
        IN  IF k # i /\ ~AbsLtEps(RAbs(c)) /\ j >= pc
            THEN RSub(M.data[x], RMul(c, Get(M, i, j)))
            ELSE M.data[x]]]

\* and on the companion, with the factors c taken from the working copy M
EliminateOthersRight(M, R, i, pc) ==
    [R EXCEPT !.data = [x \in 1..(R.rows * R.cols) |->
        LET k == RowOf(R, x)
            j == ColOf(R, x)
            c == Get(M, k, pc)
        IN  IF k # i /\ ~AbsLtEps(RAbs(c))
            THEN RSub(R.data[x], RMul(c, Get(R, i, j)))
            ELSE R.data[x]]]

\* one iteration of the full-reduction loop over rows i
ReduceStep(st, i) ==
    LET pc == PivotCol(st.result, i, 0)
    IN  IF pc = -1 THEN st
        ELSE LET pivot == Get(st.result, i, pc)
                 nm == NormalizeRow(st.result, i, pc, pivot)
                 nmR == IF st.hasRight THEN NormalizeRowRight(st.right, i, pivot)
                        ELSE st.right
             IN  [st EXCEPT
                    !.result = EliminateOthers(nm, i, pc),
                    !.right = IF st.hasRight THEN EliminateOthersRight(nm, nmR, i, pc)
                              ELSE nmR]

RECURSIVE ReduceLoop(_, _)
ReduceLoop(st, i) ==
    IF i >= st.result.rows THEN st ELSE ReduceLoop(ReduceStep(st, i), i + 1)

gaussianElimination(M, right, hasRight, fullReduction) ==
    LET throwOnZeroPivot == hasRight \/ fullReduction
        fwd == forwardElimination(M, right, hasRight, throwOnZeroPivot)
    IN  IF fwd.singular THEN fwd
        ELSE IF ~fullReduction THEN fwd
        ELSE ReduceLoop(fwd, 0)

(***************************************************************************)
(* Operations built on the engine.  Each returns [err, val]: err is        *)
(* "none" or the exception thrown.                                         *)
(***************************************************************************)
Ok(v) == [err |-> "none", val |-> v]
Fail(e) == [err |-> e, val |-> 0]

RECURSIVE DiagProduct(_, _)
DiagProduct(M, i) ==
    IF i = 0 THEN One ELSE RMul(DiagProduct(M, i - 1), Get(M, i - 1, i - 1))

\* mutant of determinant: the sign is not adjusted for row swaps
determinant_NoSign(M) ==
    IF M.rows # M.cols THEN Fail("NotSquare")
    ELSE LET ge == gaussianElimination(M, MatrixDefault, FALSE, FALSE)
             prod == DiagProduct(ge.result, M.rows)
         IN  Ok(IF AbsLtEps(RAbs(prod)) THEN Zero ELSE prod)

determinant(M) ==
    IF M.rows # M.cols THEN Fail("NotSquare")
    ELSE LET ge == gaussianElimination(M, MatrixDefault, FALSE, FALSE)
             prod == DiagProduct(ge.result, M.rows)
             det == IF AbsLtEps(RAbs(prod)) THEN Zero ELSE prod
         IN  Ok(IF ge.swapCount % 2 # 0
                THEN (IF det # Zero THEN RNeg(det) ELSE Zero)
                ELSE det)

\* "Count non-zero rows" / "Count non-zero columns"
NonZeroRows(E) ==
    Cardinality({i \in 0..(E.rows - 1) :
                   \E j \in 0..(E.cols - 1) : AbsGtEps(RAbs(Get(E, i, j)))})

NonZeroCols(E) ==
    Cardinality({j \in 0..(E.cols - 1) :
                   \E i \in 0..(E.rows - 1) : AbsGtEps(RAbs(Get(E, i, j)))})

\* mutant of rank: the larger of the two counts is returned
rank_Max(M) ==
    LET echelon == forwardElimination(M, MatrixDefault, FALSE, FALSE).result
        r == NonZeroRows(echelon)
        c == NonZeroCols(echelon)
    IN  IF r > c THEN r ELSE c

rank(M) ==
    LET echelon == forwardElimination(M, MatrixDefault, FALSE, FALSE).result
    IN  Min(NonZeroRows(echelon), NonZeroCols(echelon))

\* mutant of inverse: the square check is made after the elimination
inverse_CheckLate(M) ==
    LET augmented == augment(M, identity(M.rows))
        ge == gaussianElimination(augmented, MatrixDefault, FALSE, TRUE)
    IN  IF ge.singular THEN Fail("Singular")
        ELSE IF M.rows # M.cols THEN Fail("NotSquare")
        ELSE Ok([rows |-> M.rows, cols |-> M.cols,
                 data |-> [k \in 1..(M.rows * M.cols) |->
                             Get(ge.result, (k - 1) \div M.cols,
                                 M.cols + ((k - 1) % M.cols))]])

inverse(M) ==
    IF M.rows # M.cols THEN Fail("NotSquare")
    ELSE LET augmented == augment(M, identity(M.rows))
             ge == gaussianElimination(augmented, MatrixDefault, FALSE, TRUE)
         IN  IF ge.singular THEN Fail("Singular")
             ELSE Ok([rows |-> M.rows, cols |-> M.cols,
                      data |-> [k \in 1..(M.rows * M.cols) |->
                                  Get(ge.result, (k - 1) \div M.cols,
                                      M.cols + ((k - 1) % M.cols))]])

\* mutant of solve: underdetermination is tested before inconsistency
solve_InfiniteFirst(M, b0) ==
    IF M.rows # b0.rows \/ b0.cols # 1 THEN Fail("DimensionMismatch")
    ELSE LET rankA == rank(M)
             rankAb == rank(augment(M, b0))
         IN  IF rankA < M.cols THEN Ok([status |-> "Infinite", x |-> MatrixDefault])
             ELSE IF rankAb > rankA THEN Ok([status |-> "NoSolution", x |-> MatrixDefault])
             ELSE LET ge == gaussianElimination(M, b0, TRUE, TRUE)
                  IN  IF ge.singular THEN Fail("Singular")
                      ELSE Ok([status |-> "Unique", x |-> ge.right])

\* mutant of solve: only the height of b is checked
solve_RowsOnly(M, b0) ==
    IF M.rows # b0.rows THEN Fail("DimensionMismatch")
    ELSE LET rankA == rank(M)
             rankAb == rank(augment(M, b0))
         IN  IF rankAb > rankA THEN Ok([status |-> "NoSolution", x |-> MatrixDefault])
             ELSE IF rankA < M.cols THEN Ok([status |-> "Infinite", x |-> MatrixDefault])
             ELSE LET ge == gaussianElimination(M, b0, TRUE, TRUE)
                  IN  IF ge.singular THEN Fail("Singular")
                      ELSE Ok([status |-> "Unique", x |-> ge.right])

solve(M, b0) ==
    IF M.rows # b0.rows \/ b0.cols # 1 THEN Fail("DimensionMismatch")
    ELSE LET rankA == rank(M)
             rankAb == rank(augment(M, b0))
         IN  IF rankAb > rankA THEN Ok([status |-> "NoSolution", x |-> MatrixDefault])
             ELSE IF rankA < M.cols THEN Ok([status |-> "Infinite", x |-> MatrixDefault])
             ELSE LET ge == gaussianElimination(M, b0, TRUE, TRUE)
                  IN  IF ge.singular THEN Fail("Singular")
                      ELSE Ok([status |-> "Unique", x |-> ge.right])

\* operator*(const Matrix&)
Multiply(M, other) ==
    IF M.cols # other.rows THEN Fail("DimensionMismatch") ELSE Ok(MatMul(M, other))

(***************************************************************************)
(* The program: a matrix A is built, then one operation is applied to it.  *)
(***************************************************************************)
VARIABLES A, b, op, args, out, workspace

vars == <<A, b, op, args, out, workspace>>

\* the named-matrix store of a Workspace after construction: no names
EmptyWorkspace == [name \in {} |-> MatrixDefault]

Shapes == (1..MaxRows) \X (1..MaxCols)

Vals(rows, cols) ==
    IF <<rows, cols>> \in WideShapes THEN (-MaxVal)..MaxVal ELSE BinaryVals

\* Matrix(rows, cols) followed by the element writes m(r, c) = f[r * cols + c + 1]
FromRows(rows, cols, f) ==
    [rows |-> rows, cols |-> cols, data |-> [k \in 1..(rows * cols) |-> Q(f[k])]]

\* the rows that hold lo everywhere, or hi in one place and lo elsewhere
UnitRows(cols, lo, hi) ==
    {[k \in 1..cols |-> IF k = p THEN hi ELSE lo] : p \in 0..cols}

\* the rows x cols matrices built from such rows (the identity, the
\* permutation matrices, matrices with repeated and with zero rows)
RowPatterned(rows, cols, lo, hi) ==
    {FromRows(rows, cols,
              [k \in 1..(rows * cols) |-> f[((k - 1) \div cols) + 1][((k - 1) % cols) + 1]]) :
        f \in [1..rows -> UnitRows(cols, lo, hi)]}

\* every rows x cols matrix over the values of its shape
Matrices(rows, cols) ==
    IF rows * cols <= MaxDenseCells
    THEN {FromRows(rows, cols, f) : f \in [1..(rows * cols) -> Vals(rows, cols)]}
    ELSE RowPatterned(rows, cols, 0, 1)

\* right-hand sides offered to solve: every column vector of matching height,
\* and zero-filled matrices of the other shapes
RightHandSides(M) ==
    Matrices(M.rows, 1)
      \cup {MatrixFill(s[1], s[2], Zero) : s \in {t \in Shapes : t[1] # M.rows \/ t[2] # 1}}

\* the matrices of the unit tests (testDeterminant, testRankExampleProvided)
Examples ==
    {FromRows(2, 2, <<4, 7, 2, 6>>),
     FromRows(2, 2, <<1, 2, 2, 4>>),
     FromRows(3, 3, <<0, 1, 9, 0, 1, 7, 0, 2, 5>>)}

Inputs == UNION {Matrices(s[1], s[2]) : s \in Shapes} \cup Examples

Init ==
    /\ A \in Inputs
    /\ b = MatrixDefault
    /\ op = "none"
    /\ args = <<>>
    /\ out = Fail("none")
    /\ workspace = EmptyWorkspace

DoRank ==
    /\ op = "none"
    /\ op' = "rank"
    /\ out' = Ok(rank(A))
    /\ UNCHANGED <<A, b, args, workspace>>

DoDeterminant ==
    /\ op = "none"
    /\ op' = "determinant"
    /\ out' = determinant(A)
    /\ UNCHANGED <<A, b, args, workspace>>

DoInverse ==
    /\ op = "none"
    /\ op' = "inverse"
    /\ out' = inverse(A)
    /\ UNCHANGED <<A, b, args, workspace>>

DoSolve ==
    /\ op = "none"
    /\ \E rhs \in RightHandSides(A) :
         /\ b' = rhs
         /\ out' = solve(A, rhs)
    /\ op' = "solve"
    /\ UNCHANGED <<A, args, workspace>>

Next == DoRank \/ DoDeterminant \/ DoInverse \/ DoSolve

Spec == Init /\ [][Next]_vars

(***************************************************************************)
(* Construction.  The arguments are 32-bit ints; rows * cols is an int     *)
(* multiplication, so a product outside the int range is signed overflow:  *)
(* the build either wraps it modulo 2^32 (the default) or traps.           *)
(* Unsigned 32-bit values are kept as <<high 16 bits, low 16 bits>>.       *)
(***************************************************************************)
INT_MAX == 2147483647
Half == 65536

MATRIX_LIMIT_ERROR == 10000000

\* the low 32 bits of a * c for 0 <= a, c <= INT_MAX, by 16-bit halves (the low
\* half of c is split again so that no partial product leaves the int range)
MulU32(a, c) ==
    LET ah == a \div Half
        al == a % Half
        ch == c \div Half
        cl == c % Half
        t0 == al * (cl % 256)
        t1 == al * (cl \div 256)
        low == t0 + (t1 % 256) * 256
        hi == (t1 \div 256) + (low \div Half) + ((ah * cl) % Half) + ((al * ch) % Half)
    IN  <<hi % Half, low % Half>>

\* the int whose two's-complement bits are u
ToInt(u) ==
    IF u[1] >= Half \div 2 THEN (u[1] - Half) * Half + u[2] ELSE u[1] * Half + u[2]

\* rows * cols for rows > 0 and cols > 0: the outcomes a build can produce
IntMulOutcomes(rows, cols) ==
    IF rows <= INT_MAX \div cols
    THEN {[trap |-> FALSE, val |-> rows * cols]}
    ELSE LET wrapped == ToInt(MulU32(rows, cols))
         IN  {[trap |-> t, val |-> wrapped] : t \in BOOLEAN}

\* the constructor body after the dimension check, for one outcome of rows * cols;
\* the buffer made by _matrix.resize(n, initValue) is n copies of initValue
ConstructWith(rows, cols, initValue, prod) ==
    IF prod.trap THEN Fail("Abort")
    ELSE IF prod.val >= MATRIX_LIMIT_ERROR THEN Fail("TooLarge")
    ELSE IF prod.val < 0 THEN Fail("length_error")
    ELSE Ok([rows |-> rows, cols |-> cols, size |-> prod.val, fill |-> initValue])

\* Matrix(rows, cols, initValue): the possible results
Construct(rows, cols, initValue) ==
    IF rows <= 0 \/ cols <= 0 THEN {Fail("InvalidDimensions")}
    ELSE {ConstructWith(rows, cols, initValue, p) : p \in IntMulOutcomes(rows, cols)}

\* dimensions and fill values offered to the constructor
CtorDims == {-1, 0, 1, 2, 3, 3162, 3163, 46341, 65536, 65537, 1073741824}
CtorFills == {Zero, One, <<-3, 2>>}

InitCtor ==
    /\ A = MatrixDefault
    /\ b = MatrixDefault
    /\ op = "none"
    /\ args = <<>>
    /\ out = Fail("none")
    /\ workspace = EmptyWorkspace

DoConstruct ==
    /\ op = "none"
    /\ \E rows \in CtorDims, cols \in CtorDims, initValue \in CtorFills :
         /\ args' = <<rows, cols, initValue>>
         /\ out' \in Construct(rows, cols, initValue)
    /\ op' = "construct"
    /\ UNCHANGED <<A, b, workspace>>

NextCtor == DoConstruct

SpecCtor == InitCtor /\ [][NextCtor]_vars

(***************************************************************************)
(* Element access and arithmetic on existing matrices.  A call is          *)
(* described by what it leaves in the receiver (self), in its matrix       *)
(* argument (other) and what it returns or throws (ret).                   *)
(***************************************************************************)
OpMaxRows == 2
OpMaxCols == 2
OpMaxDenseCells == 4

\* mutant of index: the flat slot, not the column, is compared with the extent
index_FlatCheck(M, row, col) ==
    IF row < 0 \/ col < 0 \/ row * M.cols + col >= M.rows * M.cols
    THEN Fail("OutOfBounds")
    ELSE Ok(row * M.cols + col)

\* index(row, col): the 0-based buffer slot, or MatrixOutOfBounds
index(M, row, col) ==
    IF row < 0 \/ row >= M.rows \/ col < 0 \/ col >= M.cols
    THEN Fail("OutOfBounds")
    ELSE Ok(row * M.cols + col)

\* operator()(row, column) const, read
ReadAt(M, row, col) ==
    LET ix == index(M, row, col)
    IN  [self |-> M,
         ret |-> IF ix.err # "none" THEN ix ELSE Ok(M.data[ix.val + 1])]

\* operator()(row, column) = v
WriteAt(M, row, col, v) ==
    LET ix == index(M, row, col)
    IN  IF ix.err # "none" THEN [self |-> M, ret |-> ix]
        ELSE [self |-> [M EXCEPT !.data[ix.val + 1] = v], ret |-> Ok(v)]

\* operator=(other)
Assign(M, other) ==
    [self |-> [rows |-> other.rows, cols |-> other.cols, data |-> other.data],
     other |-> other, ret |-> Ok("this")]

\* mutant of SubAssign: the element counts, not the shapes, are compared
SubAssign_SizeCheck(M, other) ==
    IF M.rows * M.cols # other.rows * other.cols
    THEN [self |-> M, other |-> other, ret |-> Fail("DimensionMismatch")]
    ELSE [self |-> [M EXCEPT !.data = [k \in 1..Len(M.data) |->
                                         RSub(M.data[k], other.data[k])]],
          other |-> other, ret |-> Ok("this")]

\* operator-=(other)
SubAssign(M, other) ==
    IF M.rows # other.rows \/ M.cols # other.cols
    THEN [self |-> M, other |-> other, ret |-> Fail("DimensionMismatch")]
    ELSE [self |-> [M EXCEPT !.data = [k \in 1..Len(M.data) |->
                                         RSub(M.data[k], other.data[k])]],
          other |-> other, ret |-> Ok("this")]

\* operator+=(other)
AddAssign(M, other) ==
    IF M.rows # other.rows \/ M.cols # other.cols
    THEN [self |-> M, other |-> other, ret |-> Fail("DimensionMismatch")]
    ELSE [self |-> [M EXCEPT !.data = [k \in 1..Len(M.data) |->
                                         RAdd(M.data[k], other.data[k])]],
          other |-> other, ret |-> Ok("this")]

\* a const member function: the work is done on the copy `result`, so the
\* receiver and a const reference argument keep their values
OnCopy(M, other, call) ==
    [self |-> M, other |-> other,
     ret |-> IF call.ret.err # "none" THEN call.ret ELSE Ok(call.self)]

\* operator-(other) const: Matrix result(*this); result -= other
Sub(M, other) == OnCopy(M, other, SubAssign(M, other))

\* operator+(other) const: Matrix result(*this); result += other
Add(M, other) == OnCopy(M, other, AddAssign(M, other))

\* operator*=(scalar)
ScalarMulAssign(M, scalar) ==
    [self |-> [M EXCEPT !.data = [k \in 1..Len(M.data) |-> RMul(M.data[k], scalar)]],
     other |-> MatrixDefault, ret |-> Ok("this")]

\* operator*(scalar) const: Matrix result(*this); result *= scalar
ScalarMul(M, scalar) == OnCopy(M, MatrixDefault, ScalarMulAssign(M, scalar))

\* operator*(other) const
MulCall(M, other) == [self |-> M, other |-> other, ret |-> Multiply(M, other)]

\* mutant of MulAssign: only the buffer is taken from the product
MulAssign_KeepShape(M, other) ==
    LET prod == Multiply(M, other)
    IN  IF prod.err # "none" THEN [self |-> M, other |-> other, ret |-> prod]
        ELSE [self |-> [M EXCEPT !.data = prod.val.data],
              other |-> other, ret |-> Ok("this")]

\* operator*=(other): *this = Matrix(*this * other)
MulAssign(M, other) ==
    LET prod == Multiply(M, other)
    IN  IF prod.err # "none" THEN [self |-> M, other |-> other, ret |-> prod]
        ELSE [self |-> Assign(M, prod.val).self, other |-> other, ret |-> Ok("this")]

\* mutant of transpose: the dimensions are exchanged, the buffer is kept
transpose_KeepBuffer(M) ==
    [rows |-> M.cols, cols |-> M.rows, data |-> M.data]

\* operator==(other): equal dimensions and equal buffers
Equals(M, other) ==
    ~(M.rows # other.rows \/ M.cols # other.cols \/ M.data # other.data)

\* transpose() const
transpose(M) ==
    [rows |-> M.cols, cols |-> M.rows,
     data |-> [k \in 1..(M.cols * M.rows) |->
                 Get(M, (k - 1) % M.rows, (k - 1) \div M.rows)]]

TransposeCall(M) == [self |-> M, other |-> MatrixDefault, ret |-> Ok(transpose(M))]

\* augment(right) const, with its dimension check
AugmentCall(M, right) ==
    [self |-> M, other |-> right,
     ret |-> IF M.rows # right.rows THEN Fail("DimensionMismatch")
             ELSE Ok(augment(M, right))]

\* rank(), determinant(), inverse(): forwardElimination starts with
\* Matrix result(*this) and works on that copy only
RankCall(M) == [self |-> M, other |-> MatrixDefault, ret |-> Ok(rank(M))]
DeterminantCall(M) == [self |-> M, other |-> MatrixDefault, ret |-> determinant(M)]
InverseCall(M) == [self |-> M, other |-> MatrixDefault, ret |-> inverse(M)]

\* mutant of SolveCall: the companion handed to the reduction is b itself
SolveCall_NoCopy(M, b0) ==
    LET r == solve(M, b0)
    IN  [self |-> M,
         other |-> IF r.err = "none" /\ r.val.status = "Unique" THEN r.val.x ELSE b0,
         ret |-> r]

\* solve(b) const: the reduction runs on Matrix right(b), a copy of b
SolveCall(M, b0) == [self |-> M, other |-> b0, ret |-> solve(M, b0)]

OpShapes == (1..OpMaxRows) \X (1..OpMaxCols)
ReceiverVals == {-1, 2}
OtherVals == {0, 1}
Scalars == {Q(-1), Zero, <<1, 2>>}

\* every matrix of the shape over vals; a shape of more than OpMaxDenseCells
\* elements is represented by its row-patterned matrices over the least and
\* the greatest value
Operands(rows, cols, vals) ==
    IF rows * cols <= OpMaxDenseCells
    THEN {FromRows(rows, cols, f) : f \in [1..(rows * cols) -> vals]}
    ELSE RowPatterned(rows, cols,
                      CHOOSE v \in vals : \A w \in vals : v <= w,
                      CHOOSE v \in vals : \A w \in vals : v >= w)

Receivers == UNION {Operands(s[1], s[2], ReceiverVals) : s \in OpShapes}

Others == UNION {Operands(s[1], s[2], OtherVals) : s \in OpShapes}

InitOps ==
    /\ A \in Receivers
    /\ b \in Others
    /\ op = "none"
    /\ args = <<>>
    /\ out = Fail("none")
    /\ workspace = EmptyWorkspace

\* a call on receiver A with matrix argument b
Call(name, call) ==
    /\ op = "none"
    /\ op' = name
    /\ A' = call.self
    /\ b' = call.other
    /\ out' = call.ret
    /\ UNCHANGED workspace

\* a call on receiver A without matrix argument
CallNoArg(name, call) ==
    /\ op = "none"
    /\ op' = name
    /\ A' = call.self
    /\ out' = call.ret
    /\ UNCHANGED <<b, workspace>>

DoRead ==
    \E row \in (-1)..OpMaxRows, col \in (-1)..OpMaxCols :
        /\ CallNoArg("read", ReadAt(A, row, col))
        /\ args' = <<row, col>>

DoWrite ==
    \E row \in (-1)..OpMaxRows, col \in (-1)..OpMaxCols, v \in {Q(7), <<-1, 2>>} :
        /\ CallNoArg("write", WriteAt(A, row, col, v))
        /\ args' = <<row, col, v>>

DoAssign == Call("assign", Assign(A, b)) /\ UNCHANGED args
DoAdd == Call("add", Add(A, b)) /\ UNCHANGED args
DoSub == Call("sub", Sub(A, b)) /\ UNCHANGED args
DoAddAssign == Call("addAssign", AddAssign(A, b)) /\ UNCHANGED args
DoSubAssign == Call("subAssign", SubAssign(A, b)) /\ UNCHANGED args
DoMul == Call("mul", MulCall(A, b)) /\ UNCHANGED args
DoMulAssign == Call("mulAssign", MulAssign(A, b)) /\ UNCHANGED args
DoAugment == Call("augment", AugmentCall(A, b)) /\ UNCHANGED args
DoSolveCall == Call("solve", SolveCall(A, b)) /\ UNCHANGED args
DoTranspose == CallNoArg("transpose", TransposeCall(A)) /\ UNCHANGED args
DoRankCall == CallNoArg("rank", RankCall(A)) /\ UNCHANGED args
DoDeterminantCall == CallNoArg("determinant", DeterminantCall(A)) /\ UNCHANGED args
DoInverseCall == CallNoArg("inverse", InverseCall(A)) /\ UNCHANGED args

DoScalarMul ==
    \E scalar \in Scalars :
        /\ CallNoArg("scalarMul", ScalarMul(A, scalar))
        /\ args' = <<scalar>>

DoScalarMulAssign ==
    \E scalar \in Scalars :
        /\ CallNoArg("scalarMulAssign", ScalarMulAssign(A, scalar))
        /\ args' = <<scalar>>

NextOps ==
    \/ DoRead \/ DoWrite \/ DoAssign
    \/ DoAdd \/ DoSub \/ DoAddAssign \/ DoSubAssign
    \/ DoMul \/ DoMulAssign \/ DoScalarMul \/ DoScalarMulAssign
    \/ DoTranspose \/ DoAugment
    \/ DoRankCall \/ DoDeterminantCall \/ DoInverseCall \/ DoSolveCall

SpecOps == InitOps /\ [][NextOps]_vars

(***************************************************************************)
(* The elimination engine iteration by iteration: a call of                *)
(* gaussianElimination(right, fullReduction) on A.  b keeps the value the  *)
(* companion had at the call, out is the elimination state (working copy,  *)
(* companion, swap counter), args holds fullReduction and the loop         *)
(* variable i, op the loop the call is in.                                 *)
(***************************************************************************)
\* the companions handed to the engine: a column of matching height, or none
Companions(M, hasRight) ==
    IF hasRight THEN {FromRows(M.rows, 1, f) : f \in [1..M.rows -> BinaryVals]}
    ELSE {MatrixDefault}

\* the row from which the pivot search of iteration i starts (maxRow = i) and
\* the column it scans (result(k, i)): one loop variable serves as both
SearchRow(i) == i
SearchCol(i) == i

InitEngine ==
    /\ A \in Inputs
    /\ b = MatrixDefault
    /\ op = "none"
    /\ args = <<>>
    /\ out = Fail("none")
    /\ workspace = EmptyWorkspace

\* entry: Matrix result(*this), localSwapCount = 0
CallElimination ==
    /\ op = "none"
    /\ \E hasRight \in BOOLEAN, fullReduction \in BOOLEAN :
         \E right \in Companions(A, hasRight) :
            /\ b' = right
            /\ out' = [result |-> A, right |-> right, hasRight |-> hasRight,
                       swapCount |-> 0, singular |-> FALSE]
            /\ args' = [fullReduction |-> fullReduction, i |-> 0]
    /\ op' = "forward"
    /\ UNCHANGED <<A, workspace>>

\* one iteration of the loop of forwardElimination; MatrixSingular ends the call
ForwardIteration ==
    /\ op = "forward"
    /\ args.i < Min(A.rows, A.cols)
    /\ LET st == ForwardStep(out, args.i, out.hasRight \/ args.fullReduction)
       IN  /\ out' = st
           /\ op' = IF st.singular THEN "singular" ELSE "forward"
           /\ args' = IF st.singular THEN args ELSE [args EXCEPT !.i = @ + 1]
    /\ UNCHANGED <<A, b, workspace>>

\* the loop of forwardElimination is over: return, or go on to the full reduction
ForwardReturn ==
    /\ op = "forward"
    /\ args.i >= Min(A.rows, A.cols)
    /\ op' = IF args.fullReduction THEN "reduce" ELSE "done"
    /\ args' = [args EXCEPT !.i = 0]
    /\ UNCHANGED <<A, b, out, workspace>>

\* one iteration of the full-reduction loop over the rows
ReduceIteration ==
    /\ op = "reduce"
    /\ args.i < A.rows
    /\ out' = ReduceStep(out, args.i)
    /\ args' = [args EXCEPT !.i = @ + 1]
    /\ UNCHANGED <<A, b, op, workspace>>

ReduceReturn ==
    /\ op = "reduce"
    /\ args.i >= A.rows
    /\ op' = "done"
    /\ UNCHANGED <<A, b, args, out, workspace>>

NextEngine ==
    \/ CallElimination
    \/ ForwardIteration \/ ForwardReturn
    \/ ReduceIteration \/ ReduceReturn

SpecEngine == InitEngine /\ [][NextEngine]_vars

(***************************************************************************)
(* Rotation (XRotationMatrix, YRotationMatrix, ZRotationMatrix,            *)
(* createRotationMatrix, rotate3D).  Angles are whole quarter turns given  *)
(* in degrees, where the sine and the cosine are 0, 1 or -1.               *)
(***************************************************************************)
RotMaxRows == 3
RotMaxCols == 2
RotMaxVal == 3

\* cos(angleDegrees * M_PI / 180.0)
CosDeg(angleDegrees) ==
    LET q == (angleDegrees % 360) \div 90
    IN  IF q = 0 THEN One ELSE IF q = 2 THEN Q(-1) ELSE Zero

\* sin(angleDegrees * M_PI / 180.0)
SinDeg(angleDegrees) ==
    LET q == (angleDegrees % 360) \div 90
    IN  IF q = 1 THEN One ELSE IF q = 3 THEN Q(-1) ELSE Zero

XRotationMatrix(angleDegrees) ==
    LET c == CosDeg(angleDegrees)
        s == SinDeg(angleDegrees)
    IN  [rows |-> 3, cols |-> 3,
         data |-> <<One,  Zero, Zero,
                    Zero, c,    RNeg(s),
                    Zero, s,    c>>]

YRotationMatrix(angleDegrees) ==
    LET c == CosDeg(angleDegrees)
        s == SinDeg(angleDegrees)
    IN  [rows |-> 3, cols |-> 3,
         data |-> <<c,       Zero, s,
                    Zero,    One,  Zero,
                    RNeg(s), Zero, c>>]

ZRotationMatrix(angleDegrees) ==
    LET c == CosDeg(angleDegrees)
        s == SinDeg(angleDegrees)
    IN  [rows |-> 3, cols |-> 3,
         data |-> <<c,    RNeg(s), Zero,
                    s,    c,       Zero,
                    Zero, Zero,    One>>]

\* mutant of createRotationMatrix: the factors are multiplied in the order X, Y, Z
createRotationMatrix_XYZ(angleDegreesX, angleDegreesY, angleDegreesZ) ==
    MatMul(MatMul(XRotationMatrix(angleDegreesX), YRotationMatrix(angleDegreesY)),
           ZRotationMatrix(angleDegreesZ))

\* rotationZ * rotationY * rotationX
createRotationMatrix(angleDegreesX, angleDegreesY, angleDegreesZ) ==
    MatMul(MatMul(ZRotationMatrix(angleDegreesZ), YRotationMatrix(angleDegreesY)),
           XRotationMatrix(angleDegreesX))

\* mutant of rotate3D: anything but a column vector is refused
rotate3D_VectorOnly(M, angleDegreesX, angleDegreesY, angleDegreesZ) ==
    IF M.cols # 1 THEN Fail("DimensionMismatch")
    ELSE Multiply(createRotationMatrix(angleDegreesX, angleDegreesY, angleDegreesZ), M)

\* rotate3D(...) const: rotation * (*this)
rotate3D(M, angleDegreesX, angleDegreesY, angleDegreesZ) ==
    Multiply(createRotationMatrix(angleDegreesX, angleDegreesY, angleDegreesZ), M)

RotateCall(M, angleDegreesX, angleDegreesY, angleDegreesZ) ==
    [self |-> M, other |-> MatrixDefault,
     ret |-> rotate3D(M, angleDegreesX, angleDegreesY, angleDegreesZ)]

Angles == {-90, 0, 90, 180, 270}

\* the column vectors of height 3 over -RotMaxVal..RotMaxVal
Vectors3 ==
    {FromRows(3, 1, f) : f \in [1..3 -> (-RotMaxVal)..RotMaxVal]}

RotReceivers ==
    Vectors3
      \cup UNION {RowPatterned(s[1], s[2], 0, 1) : s \in (1..RotMaxRows) \X (1..RotMaxCols)}

InitRot ==
    /\ A \in RotReceivers
    /\ b = MatrixDefault
    /\ op = "none"
    /\ args = <<>>
    /\ out = Fail("none")
    /\ workspace = EmptyWorkspace

DoRotate3D ==
    \E ax \in Angles, ay \in Angles, az \in Angles :
        /\ CallNoArg("rotate3D", RotateCall(A, ax, ay, az))
        /\ args' = <<ax, ay, az>>

NextRot == DoRotate3D

SpecRot == InitRot /\ [][NextRot]_vars

(***************************************************************************)
(* Workspace (src/src/Workspace.cpp): the named-matrix store and its       *)
(* operations.  Each operation is described by the store it leaves (ws)    *)
(* and what the call does (ret): "true" or "false" for the value returned, *)
(* "escapes" when an exception the operation does not catch leaves it.     *)
(* In workspace[resultName] = e the right operand is evaluated before the  *)
(* entry is looked up, so a throwing e inserts nothing.                    *)
(***************************************************************************)
WsMaxSteps == 3

\* workspace[name] = m
Put(ws, name, m) ==
    [n \in (DOMAIN ws) \cup {name} |-> IF n = name THEN m ELSE ws[n]]

\* workspace.erase(name)
Erase(ws, name) == [n \in (DOMAIN ws) \ {name} |-> ws[n]]

matrixExists(ws, matName) == matName \in DOMAIN ws

\* createMatrix: one outcome per outcome of the constructor; a successful
\* construction leaves size copies of the fill value
createMatrix(ws, matName, rows, cols, initValue) ==
    {IF c.err = "none"
     THEN [ws |-> Put(ws, matName,
                      [rows |-> c.val.rows, cols |-> c.val.cols,
                       data |-> [k \in 1..c.val.size |-> c.val.fill]]),
           ret |-> "true"]
     ELSE IF c.err \in {"InvalidDimensions", "TooLarge"} THEN [ws |-> ws, ret |-> "false"]
     ELSE [ws |-> ws, ret |-> "escapes"] : c \in Construct(rows, cols, initValue)}

listMatrices(ws) == [ws |-> ws, ret |-> IF DOMAIN ws = {} THEN "false" ELSE "true"]

\* handleReadOnlyMatrixOp, given what the operation on the matrix throws
handleReadOnlyMatrixOp(ws, matName, err) ==
    IF ~matrixExists(ws, matName) THEN [ws |-> ws, ret |-> "false"]
    ELSE IF err # "none" THEN [ws |-> ws, ret |-> "false"]
    ELSE [ws |-> ws, ret |-> "true"]

\* handleSingleMatrixOp, given the result r of the operation on the matrix and
\* the name the result is stored under
handleSingleMatrixOp(ws, matName, resultName, r) ==
    IF ~matrixExists(ws, matName) THEN [ws |-> ws, ret |-> "false"]
    ELSE IF r.err # "none" THEN [ws |-> ws, ret |-> "false"]
    ELSE [ws |-> Put(ws, resultName, r.val), ret |-> "true"]

showMatrix(ws, matName) == handleReadOnlyMatrixOp(ws, matName, "none")

\* m = m.transpose()
transposeMatrix(ws, matName) ==
    handleSingleMatrixOp(ws, matName, matName,
        IF matrixExists(ws, matName) THEN Ok(transpose(ws[matName])) ELSE Fail("none"))

\* a line typed at the prompt or a token of a workspace file: its text, whether
\* it reads as an int, whether it reads as a double, and the value read (the
\* value n of a token that reads as an int is Q(n))
Token(text, isInt, isNum, val) ==
    [text |-> text, isInt |-> isInt, isNum |-> isNum, val |-> val]

\* assignMatrix: a line that is not one number is asked again, so the elements
\* take the numbers typed, in order; typed holds enough of them
assignMatrix(ws, matName, typed) ==
    IF ~matrixExists(ws, matName) THEN [ws |-> ws, ret |-> "false"]
    ELSE LET assigned == ws[matName]
             numbers == SelectSeq(typed, LAMBDA t : t.isNum)
         IN  [ws |-> Put(ws, matName,
                         [assigned EXCEPT !.data =
                             [k \in 1..Len(assigned.data) |-> numbers[k].val]]),
              ret |-> "true"]

deleteMatrix(ws, matName) ==
    IF ~matrixExists(ws, matName) THEN [ws |-> ws, ret |-> "false"]
    ELSE [ws |-> Erase(ws, matName), ret |-> "true"]

\* workspace[resultName] = m * scalar
scalarMultiplyMatrix(ws, resultName, matName, scalar) ==
    handleSingleMatrixOp(ws, matName, resultName,
        IF matrixExists(ws, matName) THEN ScalarMul(ws[matName], scalar).ret
        ELSE Fail("none"))

\* binaryMatrixOp, for the result r of op on the two matrices; only
\* MatrixDimensionMismatch is caught
binaryMatrixOp(ws, resultName, mat1Name, mat2Name, r) ==
    IF ~matrixExists(ws, mat1Name) THEN [ws |-> ws, ret |-> "false"]
    ELSE IF ~matrixExists(ws, mat2Name) THEN [ws |-> ws, ret |-> "false"]
    ELSE IF r.err = "DimensionMismatch" THEN [ws |-> ws, ret |-> "false"]
    ELSE IF r.err # "none" THEN [ws |-> ws, ret |-> "escapes"]
    ELSE [ws |-> Put(ws, resultName, r.val), ret |-> "true"]

addMatrices(ws, resultName, mat1Name, mat2Name) ==
    binaryMatrixOp(ws, resultName, mat1Name, mat2Name,
        IF matrixExists(ws, mat1Name) /\ matrixExists(ws, mat2Name)
        THEN Add(ws[mat1Name], ws[mat2Name]).ret ELSE Fail("none"))

subtractMatrices(ws, resultName, mat1Name, mat2Name) ==
    binaryMatrixOp(ws, resultName, mat1Name, mat2Name,
        IF matrixExists(ws, mat1Name) /\ matrixExists(ws, mat2Name)
        THEN Sub(ws[mat1Name], ws[mat2Name]).ret ELSE Fail("none"))

multiplyMatrices(ws, resultName, mat1Name, mat2Name) ==
    binaryMatrixOp(ws, resultName, mat1Name, mat2Name,
        IF matrixExists(ws, mat1Name) /\ matrixExists(ws, mat2Name)
        THEN Multiply(ws[mat1Name], ws[mat2Name]) ELSE Fail("none"))

\* saveWorkspaceToFile: the store is only read; canOpen is whether the output
\* file could be opened
saveWorkspaceToFile(ws, canOpen) ==
    [ws |-> ws, ret |-> IF canOpen THEN "true" ELSE "false"]

RECURSIVE LoadRecords(_, _, _)

\* while (ifs >> name >> rows >> cols), from token pos on, with the body of the
\* loop: one outcome per outcome c of Matrix(rows, cols)
LoadRecords(tokens, pos, ws) ==
    IF pos + 2 > Len(tokens) \/ ~tokens[pos + 1].isInt \/ ~tokens[pos + 2].isInt
    THEN {[ws |-> ws, ret |-> "true"]}
    ELSE LET name == tokens[pos].text
             rows == tokens[pos + 1].val[1]
             cols == tokens[pos + 2].val[1]
             first == pos + 3
             Body(c) ==
                 IF c.err \in {"InvalidDimensions", "TooLarge"}
                 THEN {[ws |-> ws, ret |-> "false"]}
                 ELSE IF c.err # "none" THEN {[ws |-> ws, ret |-> "escapes"]}
                 ELSE LET count == rows * cols
                          readable == \A k \in 0..(count - 1) :
                                         /\ first + k <= Len(tokens)
                                         /\ tokens[first + k].isNum
                      IN  IF ~readable THEN {[ws |-> EmptyWorkspace, ret |-> "false"]}
                          ELSE LoadRecords(tokens, first + count,
                                   Put(ws, name,
                                       [rows |-> rows, cols |-> cols,
                                        data |-> [k \in 1..count |->
                                                    tokens[first + k - 1].val]]))
         IN  UNION {Body(c) : c \in Construct(rows, cols, Zero)}

\* loadWorkspaceFromFile; a file is whether it opens and its tokens
loadWorkspaceFromFile(ws, file) ==
    IF ~file.open THEN {[ws |-> ws, ret |-> "false"]}
    ELSE LoadRecords(file.tokens, 1, EmptyWorkspace)

\* m.rank() throws nothing
rankMatrix(ws, matName) == handleReadOnlyMatrixOp(ws, matName, "none")

determinantMatrix(ws, matName) ==
    handleReadOnlyMatrixOp(ws, matName,
        IF matrixExists(ws, matName) THEN determinant(ws[matName]).err ELSE "none")

\* workspace[resultName] = m.inverse()
inverseMatrix(ws, resultName, matName) ==
    handleSingleMatrixOp(ws, matName, resultName,
        IF matrixExists(ws, matName) THEN inverse(ws[matName]) ELSE Fail("none"))

solveMatrix(ws, resultName, mA, mb) ==
    IF ~matrixExists(ws, mA) THEN [ws |-> ws, ret |-> "false"]
    ELSE IF ~matrixExists(ws, mb) THEN [ws |-> ws, ret |-> "false"]
    ELSE LET result == solve(ws[mA], ws[mb])
         IN  IF result.err # "none" THEN [ws |-> ws, ret |-> "false"]
             ELSE IF result.val.status = "Unique"
                  THEN [ws |-> Put(ws, resultName, result.val.x), ret |-> "true"]
             ELSE [ws |-> ws, ret |-> "true"]

\* workspace[vecName] = vec.rotate3D(...)
rotate3DVector(ws, vecName, angleDegreesX, angleDegreesY, angleDegreesZ) ==
    handleSingleMatrixOp(ws, vecName, vecName,
        IF matrixExists(ws, vecName)
        THEN rotate3D(ws[vecName], angleDegreesX, angleDegreesY, angleDegreesZ)
        ELSE Fail("none"))

\* the names offered to the operations
WsNames == {"A", "B"}

InitWs ==
    /\ A = MatrixDefault
    /\ b = MatrixDefault
    /\ op = "none"
    /\ args = [n |-> 0]
    /\ out = "none"
    /\ workspace = EmptyWorkspace

\* one call of a Workspace operation with outcome r
WsCall(name, r) ==
    /\ args.n < WsMaxSteps
    /\ op' = name
    /\ args' = [n |-> args.n + 1]
    /\ out' = r.ret
    /\ workspace' = r.ws
    /\ UNCHANGED <<A, b>>

DoCreateMatrix ==
    \E matName \in WsNames, initValue \in {One, Q(2)},
       shape \in {<<0, 1>>, <<2, -1>>, <<1, 1>>, <<1, 3>>, <<3, 1>>, <<3, 3>>,
                  <<4000, 4000>>} :
        \E r \in createMatrix(workspace, matName, shape[1], shape[2], initValue) :
            WsCall("createMatrix", r)

DoListMatrices == WsCall("listMatrices", listMatrices(workspace))

DoShowMatrix ==
    \E matName \in WsNames : WsCall("showMatrix", showMatrix(workspace, matName))

DoTransposeMatrix ==
    \E matName \in WsNames :
        WsCall("transposeMatrix", transposeMatrix(workspace, matName))

\* the lines typed hold one that is not a number and nine numbers, enough for
\* every matrix of the workspace
DoAssignMatrix ==
    \E matName \in WsNames :
        LET N(text, n) == Token(text, TRUE, TRUE, Q(n))
            typed == <<N("1", 1), N("2", 2), Token("x", FALSE, FALSE, Zero), N("0", 0),
                       N("1", 1), N("1", 1), N("3", 3), N("0", 0), N("2", 2), N("1", 1)>>
            numbers == SelectSeq(typed, LAMBDA t : t.isNum)
        IN  /\ matrixExists(workspace, matName) =>
                   Len(numbers) >= Len(workspace[matName].data)
            /\ WsCall("assignMatrix", assignMatrix(workspace, matName, typed))

DoDeleteMatrix ==
    \E matName \in WsNames : WsCall("deleteMatrix", deleteMatrix(workspace, matName))

DoScalarMultiplyMatrix ==
    \E resultName \in WsNames, matName \in WsNames, scalar \in Scalars :
        WsCall("scalarMultiplyMatrix",
               scalarMultiplyMatrix(workspace, resultName, matName, scalar))

DoAddMatrices ==
    \E resultName \in WsNames, mat1Name \in WsNames, mat2Name \in WsNames :
        WsCall("addMatrices", addMatrices(workspace, resultName, mat1Name, mat2Name))

DoSubtractMatrices ==
    \E resultName \in WsNames, mat1Name \in WsNames, mat2Name \in WsNames :
        WsCall("subtractMatrices",
               subtractMatrices(workspace, resultName, mat1Name, mat2Name))

DoMultiplyMatrices ==
    \E resultName \in WsNames, mat1Name \in WsNames, mat2Name \in WsNames :
        WsCall("multiplyMatrices",
               multiplyMatrices(workspace, resultName, mat1Name, mat2Name))

DoSaveWorkspaceToFile ==
    \E canOpen \in BOOLEAN :
        WsCall("saveWorkspaceToFile", saveWorkspaceToFile(workspace, canOpen))

\* the files loaded: one that does not open, an empty one, a well-formed one,
\* one whose second record has zero rows, one whose second record holds a word
\* where a value is expected, and one that ends inside a header
DoLoadWorkspaceFromFile ==
    LET W(text) == Token(text, FALSE, FALSE, Zero)
        N(text, n) == Token(text, TRUE, TRUE, Q(n))
        files ==
            {[open |-> FALSE, tokens |-> <<>>],
             [open |-> TRUE, tokens |-> <<>>],
             [open |-> TRUE,
              tokens |-> <<W("A"), N("2", 2), N("2", 2),
                           N("2", 2), N("1", 1), N("1", 1), N("1", 1),
                           W("B"), N("2", 2), N("1", 1), N("1", 1), N("2", 2)>>],
             [open |-> TRUE,
              tokens |-> <<W("A"), N("1", 1), N("1", 1), N("5", 5),
                           W("B"), N("0", 0), N("2", 2)>>],
             [open |-> TRUE,
              tokens |-> <<W("A"), N("1", 1), N("1", 1), N("5", 5),
                           W("B"), N("1", 1), N("2", 2), N("7", 7), W("x")>>],
             [open |-> TRUE,
              tokens |-> <<W("A"), N("1", 1), N("1", 1), N("5", 5), W("B"), W("x")>>]}
    IN  \E file \in files :
            \E r \in loadWorkspaceFromFile(workspace, file) :
                WsCall("loadWorkspaceFromFile", r)

DoRankMatrix ==
    \E matName \in WsNames : WsCall("rankMatrix", rankMatrix(workspace, matName))

DoDeterminantMatrix ==
    \E matName \in WsNames :
        WsCall("determinantMatrix", determinantMatrix(workspace, matName))

DoInverseMatrix ==
    \E resultName \in WsNames, matName \in WsNames :
        WsCall("inverseMatrix", inverseMatrix(workspace, resultName, matName))

DoSolveMatrix ==
    \E resultName \in WsNames, mA \in WsNames, mb \in WsNames :
        WsCall("solveMatrix", solveMatrix(workspace, resultName, mA, mb))

DoRotate3DVector ==
    \E vecName \in WsNames, angleDegreesX \in {0, 90}, angleDegreesY \in {0, 90},
       angleDegreesZ \in {0, 90} :
        WsCall("rotate3DVector",
               rotate3DVector(workspace, vecName, angleDegreesX, angleDegreesY,
                              angleDegreesZ))

NextWs ==
    \/ DoCreateMatrix
    \/ DoListMatrices
    \/ DoShowMatrix
    \/ DoTransposeMatrix
    \/ DoAssignMatrix
    \/ DoDeleteMatrix
    \/ DoScalarMultiplyMatrix
    \/ DoAddMatrices
    \/ DoSubtractMatrices
    \/ DoMultiplyMatrices
    \/ DoSaveWorkspaceToFile
    \/ DoLoadWorkspaceFromFile
    \/ DoRankMatrix
    \/ DoDeterminantMatrix
    \/ DoInverseMatrix
    \/ DoSolveMatrix
    \/ DoRotate3DVector

SpecWs == InitWs /\ [][NextWs]_vars

(***************************************************************************)
(* Reference linear algebra, independent of the elimination engine: the    *)
(* determinant by cofactor expansion and the rank as the order of the      *)
(* largest non-vanishing minor.                                            *)
(***************************************************************************)
RECURSIVE SortedSeq(_)
SortedSeq(S) ==
    IF S = {} THEN <<>>
    ELSE LET m == CHOOSE x \in S : \A y \in S : x <= y
         IN  <<m>> \o SortedSeq(S \ {m})

Without(sq, p) == [k \in 1..(Len(sq) - 1) |-> IF k < p THEN sq[k] ELSE sq[k + 1]]

\* determinant of the submatrix of M on rows rs and columns cs (sequences of
\* equal length), expanded along its first row
RECURSIVE Minor(_, _, _)
RECURSIVE MinorSum(_, _, _, _)
Minor(M, rs, cs) ==
    IF Len(rs) = 0 THEN One ELSE MinorSum(M, rs, cs, Len(cs))

MinorSum(M, rs, cs, p) ==
    IF p = 0 THEN Zero
    ELSE LET term == RMul(Get(M, rs[1], cs[p]), Minor(M, Tail(rs), Without(cs, p)))
         IN  RAdd(MinorSum(M, rs, cs, p - 1),
                  IF p % 2 = 1 THEN term ELSE RNeg(term))

MathDet(M) ==
    Minor(M, SortedSeq(0..(M.rows - 1)), SortedSeq(0..(M.cols - 1)))

HasMinor(M, k) ==
    \E R \in SUBSET (0..(M.rows - 1)) : \E C \in SUBSET (0..(M.cols - 1)) :
        /\ Cardinality(R) = k
        /\ Cardinality(C) = k
        /\ Minor(M, SortedSeq(R), SortedSeq(C)) # Zero

MathRank(M) ==
    CHOOSE k \in 0..Min(M.rows, M.cols) :
        /\ HasMinor(M, k)
        /\ \A k2 \in (k + 1)..Min(M.rows, M.cols) : ~HasMinor(M, k2)

\* Rouche-Capelli: the number of solutions of M x = rhs
MathClass(M, rhs) ==
    IF MathRank(augment(M, rhs)) > MathRank(M) THEN "NoSolution"
    ELSE IF MathRank(M) < M.cols THEN "Infinite"
    ELSE "Unique"

\* the point <<x, y, z>> after n quarter turns about the X, the Y and the Z
\* axis (right-handed: a quarter turn about Z takes the X axis to the Y axis)
RECURSIVE TurnX(_, _)
TurnX(p, n) == IF n = 0 THEN p ELSE TurnX(<<p[1], RNeg(p[3]), p[2]>>, n - 1)

RECURSIVE TurnY(_, _)
TurnY(p, n) == IF n = 0 THEN p ELSE TurnY(<<p[3], p[2], RNeg(p[1])>>, n - 1)

RECURSIVE TurnZ(_, _)
TurnZ(p, n) == IF n = 0 THEN p ELSE TurnZ(<<RNeg(p[2]), p[1], p[3]>>, n - 1)

Turns(angleDegrees) == (angleDegrees % 360) \div 90

\* the column of the leading entry of row i, M.cols for an all-zero row
Lead(M, i) ==
    IF \A j \in 0..(M.cols - 1) : Get(M, i, j) = Zero THEN M.cols
    ELSE CHOOSE j \in 0..(M.cols - 1) :
            /\ Get(M, i, j) # Zero
            /\ \A j2 \in 0..(j - 1) : Get(M, i, j2) = Zero

\* row-echelon form: leading entries move strictly right, zero rows at the bottom
IsEchelon(M) ==
    \A i \in 0..(M.rows - 2) :
        Lead(M, i + 1) = M.cols \/ Lead(M, i) < Lead(M, i + 1)

\* every leading entry is 1 and alone in its column
LeadingOnes(M) ==
    \A i \in 0..(M.rows - 1) :
        Lead(M, i) < M.cols =>
            /\ Get(M, i, Lead(M, i)) = One
            /\ \A k \in 0..(M.rows - 1) : k # i => Get(M, k, Lead(M, i)) = Zero

\* column i has an entry of magnitude >= epsilon in rows i..n-1
HasPivot(M, i) ==
    \E k \in i..(M.rows - 1) : ~AbsLtEps(RAbs(Get(M, k, i)))

\* the lowest-indexed row of i..n-1 whose entry in column i is largest in magnitude
BestRow(M, i) ==
    CHOOSE k \in i..(M.rows - 1) :
        /\ \A k2 \in i..(M.rows - 1) : ~RGt(RAbs(Get(M, k2, i)), RAbs(Get(M, k, i)))
        /\ \A k2 \in i..(k - 1) : RGt(RAbs(Get(M, k, i)), RAbs(Get(M, k2, i)))

XVals == {-1, 0, 1}

\* the candidate solutions: columns of height n over XVals
XVectors(n) == {FromRows(n, 1, f) : f \in [1..n -> XVals]}

\* M * x == R for a column x and a column R, row by row
Satisfies(M, x, R) ==
    \A r \in 0..(M.rows - 1) : DotSum(M, x, r, 0, M.cols) = Get(R, r, 0)

\* the call is in one of its loops with working copy and companion in out
InEngine == op \in {"forward", "reduce", "done"}

Solved == op = "solve" /\ b.rows = A.rows /\ b.cols = 1

RowAt(M, i) == [j \in 0..(M.cols - 1) |-> Get(M, i, j)]

HasDuplicateRow(M) ==
    \E i, k \in 0..(M.rows - 1) : i # k /\ RowAt(M, i) = RowAt(M, k)

(***************************************************************************)
(* Properties.                                                             *)
(***************************************************************************)
\* C1: whenever solve(A, b) returns a result for a column b of matching
\* height, its status is the true classification of A x = b: NoSolution when
\* there is no solution, Infinite when there is more than one, Unique when
\* there is exactly one.
SolveClassifiesCorrectly ==
    (Solved /\ out.err = "none") => out.val.status = MathClass(A, b)

\* C2: for a column b of matching height, solve returns one of the three
\* statuses and never fails with Singular or any other error.
SolveNeverFails ==
    Solved => /\ out.err = "none"
              /\ out.val.status \in {"Unique", "Infinite", "NoSolution"}

\* C3: whenever solve returns Unique, the attached x is cols(A) x 1.
UniqueSolutionShape ==
    (Solved /\ out.err = "none" /\ out.val.status = "Unique")
        => (out.val.x.rows = A.cols /\ out.val.x.cols = 1)

\* C4: whenever solve returns Unique, the returned x satisfies A * x == b.
UniqueSolutionSatisfies ==
    (Solved /\ out.err = "none" /\ out.val.status = "Unique")
        => Multiply(A, out.val.x) = Ok(b)

\* C5: rank() returns the true rank of the matrix.
RankIsTrueRank ==
    op = "rank" => out.val = MathRank(A)

\* C6: a matrix with two identical rows has rank() strictly below its row count.
DuplicateRowLowersRank ==
    (op = "rank" /\ HasDuplicateRow(A)) => out.val < A.rows

\* C7: rank() of an m x n matrix lies in 0..min(m, n).
RankInRange ==
    op = "rank" => (0 <= out.val /\ out.val <= Min(A.rows, A.cols))

RankInRangeWitness ==
    op = "rank" /\ A.rows = 3 /\ A.cols = 2 /\ out.val = 2

\* C8: determinant() of a square matrix equals the mathematical determinant
\* (in particular 10 for [[4,7],[2,6]], -1 for [[0,1],[1,0]] and 0 for
\* [[1,2],[2,4]]).
DeterminantIsExact ==
    (op = "determinant" /\ A.rows = A.cols) => out = Ok(MathDet(A))

DeterminantWitness ==
    /\ op = "determinant"
    /\ A = FromRows(2, 2, <<0, 1, 1, 0>>)
    /\ out = Ok(Q(-1))

\* C9: for an invertible square matrix A, inverse() succeeds and
\* A * A.inverse() is the identity.
InverseIsRightInverse ==
    (op = "inverse" /\ A.rows = A.cols /\ MathDet(A) # Zero)
        => (out.err = "none" /\ Multiply(A, out.val) = Ok(identity(A.rows)))

InverseWitness ==
    /\ op = "inverse"
    /\ A = FromRows(2, 2, <<4, 7, 2, 6>>)
    /\ out.err = "none"
    /\ Get(out.val, 0, 0) = <<3, 5>>

NonSquareFails ==
    (op \in {"determinant", "inverse"} /\ A.rows # A.cols) => out.err = "NotSquare"

\* a 1 x 2 zero matrix, whose elimination would meet a zero pivot
NonSquareWitness ==
    /\ op = "inverse"
    /\ A = FromRows(1, 2, <<0, 0>>)
    /\ out.err = "NotSquare"

\* C12: solve(b) fails with DimensionMismatch exactly when rows(b) # rows(A)
\* or cols(b) # 1.
SolveMismatchIff ==
    op = "solve" =>
        ((out.err = "DimensionMismatch") <=> (b.rows # A.rows \/ b.cols # 1))

SolveMismatchWitness ==
    /\ op = "solve"
    /\ b.rows = A.rows
    /\ b.cols = 2
    /\ out.err = "DimensionMismatch"

\* the buffer of a constructed matrix holds exactly rows * cols elements
BufferMatches(m) == m.size % m.rows = 0 /\ m.size \div m.rows = m.cols

\* C13: Construct(rows, cols) with rows > 0, cols > 0 and rows * cols >=
\* 10,000,000 (the mathematical product) always fails with TooLarge.
LargeProductTooLarge ==
    (op = "construct" /\ args[1] > 0 /\ args[2] > 0
        /\ args[1] > (MATRIX_LIMIT_ERROR - 1) \div args[2])
        => out.err = "TooLarge"

\* C14: Construct with rows <= 0 or cols <= 0 always fails with
\* InvalidDimensions, and every successful construction yields a rows x cols
\* matrix (a buffer of rows * cols elements) whose every element equals fill.
ConstructContract ==
    op = "construct" =>
        /\ (args[1] <= 0 \/ args[2] <= 0) => out.err = "InvalidDimensions"
        /\ out.err = "none" =>
             /\ out.val.rows = args[1]
             /\ out.val.cols = args[2]
             /\ out.val.fill = args[3]
             /\ BufferMatches(out.val)

InBounds(M, row, col) == row \in 0..(M.rows - 1) /\ col \in 0..(M.cols - 1)

SameShape(M, N) == M.rows = N.rows /\ M.cols = N.cols

\* C15: a read or write at (r, c) succeeds exactly when 0 <= r < rows and
\* 0 <= c < cols and then addresses buffer slot r * cols + c (slots are
\* numbered from 1 here); a successful write changes only that element;
\* otherwise the access fails with OutOfBounds and changes nothing.
AccessContract ==
    [][op' \in {"read", "write"} =>
        LET row == args'[1]
            col == args'[2]
            slot == row * A.cols + col + 1
        IN  IF InBounds(A, row, col)
            THEN /\ out'.err = "none"
                 /\ op' = "read" => (out'.val = A.data[slot] /\ A' = A)
                 /\ op' = "write" =>
                      /\ SameShape(A', A)
                      /\ DOMAIN A'.data = DOMAIN A.data
                      /\ \A k \in DOMAIN A.data :
                           A'.data[k] = IF k = slot THEN args'[3] ELSE A.data[k]
            ELSE out'.err = "OutOfBounds" /\ A' = A]_vars

\* a write at (0, cols) of a two-row matrix: refused, row 1 untouched
AccessWitness ==
    /\ op = "write"
    /\ A.rows = 2
    /\ args[1] = 0
    /\ args[2] = A.cols
    /\ out.err = "OutOfBounds"

\* C16: A + B, A - B, A += B and A -= B fail with DimensionMismatch whenever
\* the shapes differ, a failed += or -= leaves A unchanged, and with equal
\* shapes the result is the element-wise sum or difference.
ElementwiseContract ==
    [][op' \in {"add", "sub", "addAssign", "subAssign"} =>
        IF ~SameShape(A, b)
        THEN out'.err = "DimensionMismatch" /\ A' = A
        ELSE /\ out'.err = "none"
             /\ LET R == IF op' \in {"add", "sub"} THEN out'.val ELSE A'
                IN  /\ SameShape(R, A)
                    /\ \A i \in 0..(A.rows - 1), j \in 0..(A.cols - 1) :
                         Get(R, i, j) =
                            IF op' \in {"add", "addAssign"}
                            THEN RAdd(Get(A, i, j), Get(b, i, j))
                            ELSE RSub(Get(A, i, j), Get(b, i, j))]_vars

ElementwiseWitness ==
    /\ op = "subAssign"
    /\ A.rows = 1 /\ A.cols = 2
    /\ b.rows = 2 /\ b.cols = 1
    /\ out.err = "DimensionMismatch"

\* the sum of the rationals f[k], k in S
RECURSIVE SumOver(_, _)
SumOver(f, S) ==
    IF S = {} THEN Zero
    ELSE LET k == CHOOSE x \in S : TRUE
         IN  RAdd(f[k], SumOver(f, S \ {k}))

\* C17: A * B fails with DimensionMismatch iff cols(A) # rows(B); otherwise
\* the result is rows(A) x cols(B) and entry (i, j) is the sum over k of
\* A(i,k) * B(k,j).
MultiplyContract ==
    op = "mul" =>
        /\ (out.err = "DimensionMismatch") <=> (A.cols # b.rows)
        /\ out.err \in {"none", "DimensionMismatch"}
        /\ out.err = "none" =>
             /\ out.val.rows = A.rows
             /\ out.val.cols = b.cols
             /\ Len(out.val.data) = A.rows * b.cols
             /\ \A i \in 0..(A.rows - 1), j \in 0..(b.cols - 1) :
                  Get(out.val, i, j) =
                     SumOver([k \in 0..(A.cols - 1) |->
                                RMul(Get(A, i, k), Get(b, k, j))],
                             0..(A.cols - 1))

MultiplyWitness ==
    /\ op = "mul"
    /\ A.rows = 1 /\ A.cols = 2
    /\ b.rows = 2 /\ b.cols = 2
    /\ out.err = "none"
    /\ out.val.rows = 1 /\ out.val.cols = 2

\* C18 as stated: element writes and the in-place operators +=, -=,
\* *= (scalar) and *= (matrix) leave the dimensions of the left operand
\* unchanged.
ShapeImmutable ==
    [][op' \in {"write", "addAssign", "subAssign", "scalarMulAssign", "mulAssign"}
          => SameShape(A', A)]_vars

\* C18 amended: element writes, +=, -= and *= (scalar) leave the dimensions
\* of the left operand unchanged; a successful A *= B keeps rows(A) and
\* gives A the column count of B, a failed one changes nothing; the copy
\* assignment A = B gives A the dimensions of B.
ShapeAfterInPlace ==
    [][/\ op' \in {"write", "addAssign", "subAssign", "scalarMulAssign"}
            => SameShape(A', A)
       /\ op' = "mulAssign" =>
            IF A.cols = b.rows
            THEN out'.err = "none" /\ A'.rows = A.rows /\ A'.cols = b.cols
                 /\ Len(A'.data) = A.rows * b.cols
            ELSE out'.err = "DimensionMismatch" /\ A' = A
       /\ op' = "assign" => SameShape(A', b)]_vars

\* a 2 x 2 receiver multiplied in place by a 2 x 1 matrix has become 2 x 1
ShapeWitness ==
    /\ op = "mulAssign"
    /\ out.err = "none"
    /\ b.rows = 2 /\ b.cols = 1
    /\ A.rows = 2 /\ A.cols = 1

WellFormed(m) == m.rows > 0 /\ m.cols > 0 /\ Len(m.data) = m.rows * m.cols

\* C19: every Matrix value constructed or returned by an operation,
\* including the x field of every SolveResult whatever its status, has
\* rows > 0, cols > 0 and a buffer of rows * cols elements.
MatricesWellFormed ==
    /\ WellFormed(A)
    /\ (op \in {"add", "sub", "mul", "scalarMul", "transpose", "augment", "inverse"}
          /\ out.err = "none") => WellFormed(out.val)
    /\ (op = "solve" /\ out.err = "none") => WellFormed(out.val.x)

ConstOps ==
    {"determinant", "rank", "inverse", "solve", "transpose", "augment",
     "add", "sub", "mul", "scalarMul"}

\* C20: determinant, rank, inverse, solve, transpose, augment, binary +, -, *
\* and scalar * leave their receiver and their matrix argument unchanged,
\* whether they succeed or fail.
ConstOpsFrame ==
    [][op' \in ConstOps => (A' = A /\ b' = b)]_vars

\* a Unique solve whose solution differs from b: the reduction changed its copy
ConstOpsWitness ==
    /\ op = "solve"
    /\ out.err = "none"
    /\ out.val.status = "Unique"
    /\ out.val.x # b

\* C21: A.transpose() of a rows x cols matrix A is cols x rows with entry
\* (c, r) equal to A(r, c), and A.transpose().transpose() == A.
TransposeContract ==
    (op = "transpose") =>
        /\ out.err = "none"
        /\ out.val.rows = A.cols
        /\ out.val.cols = A.rows
        /\ Len(out.val.data) = A.rows * A.cols
        /\ \A r \in 0..(A.rows - 1), c \in 0..(A.cols - 1) :
              Get(out.val, c, r) = Get(A, r, c)
        /\ Equals(transpose(out.val), A)

\* a 2 x 2 matrix that is not symmetric
TransposeWitness ==
    /\ op = "transpose"
    /\ A.rows = 2 /\ A.cols = 2
    /\ Get(A, 0, 1) # Get(A, 1, 0)
    /\ Get(out.val, 1, 0) = Get(A, 0, 1)

RotateShapeContract ==
    [][op' = "rotate3D" =>
        /\ A' = A
        /\ IF A.rows # 3 THEN out'.err = "DimensionMismatch"
           ELSE /\ out'.err = "none"
                /\ out'.val.rows = 3
                /\ out'.val.cols = A.cols
                /\ Len(out'.val.data) = 3 * A.cols]_vars

RotateShapeWitness ==
    /\ op = "rotate3D"
    /\ A.rows = 3 /\ A.cols = 2
    /\ out.err = "none"
    /\ out.val.rows = 3 /\ out.val.cols = 2

\* C23: solve classifies on the ranks it computes, in a fixed order: when
\* rank([A|b]) > rank(A) the result is NoSolution, even if rank(A) < cols(A);
\* Infinite is returned only when rank([A|b]) <= rank(A) and rank(A) < cols(A);
\* the reduction with b as companion (ending in Unique or in Singular) is
\* entered only when neither holds.
SolveOrder ==
    Solved =>
        LET rankA == rank(A)
            rankAb == rank(augment(A, b))
        IN  /\ rankAb > rankA => out = Ok([status |-> "NoSolution", x |-> MatrixDefault])
            /\ (out.err = "none" /\ out.val.status = "Infinite")
                 => (rankAb <= rankA /\ rankA < A.cols)
            /\ (out.err = "Singular" \/ (out.err = "none" /\ out.val.status = "Unique"))
                 => (rankAb <= rankA /\ rankA >= A.cols)

\* inconsistent and underdetermined at once: NoSolution wins
SolveOrderWitness ==
    /\ Solved
    /\ rank(augment(A, b)) > rank(A)
    /\ rank(A) < A.cols
    /\ out = Ok([status |-> "NoSolution", x |-> MatrixDefault])

\* the iterations of the stepwise engine end where the loops of
\* gaussianElimination end
StepsAgreeWithLoops ==
    LET ge == gaussianElimination(A, b, out.hasRight, args.fullReduction)
    IN  /\ op = "done" => out = ge
        /\ op = "singular" => ge.singular

\* C24: forward elimination without required non-singularity (no companion,
\* no full reduction, as rank and determinant call it) returns a matrix in
\* row-echelon form: each leading entry is strictly right of the one above,
\* and all-zero rows are below every non-zero row.
ForwardGivesEchelon ==
    (op = "done" /\ ~out.hasRight /\ ~args.fullReduction) => IsEchelon(out.result)

\* C25: when column i has no entry of magnitude >= epsilon in the candidate
\* rows and non-singularity is not required, the pivot is skipped without
\* incrementing row progress: the next iteration scans the next column and
\* starts its search from the same row.
SkipKeepsRow ==
    [][(op = "forward" /\ op' = "forward" /\ args'.i # args.i
            /\ ~HasPivot(out.result, SearchCol(args.i)))
        => /\ SearchCol(args'.i) = SearchCol(args.i) + 1
           /\ SearchRow(args'.i) = SearchRow(args.i)]_vars

\* C26: at every non-skipped pivot step i the row placed at position i is
\* the lowest-indexed row of i..rows-1 with the largest magnitude in column
\* i (in the companion too), the swap counter grows by one exactly when
\* that row is not row i, and afterwards column i is zero below row i.
PivotStepContract ==
    [][(op = "forward" /\ op' = "forward" /\ args'.i # args.i
            /\ HasPivot(out.result, args.i))
        => LET i == args.i
               best == BestRow(out.result, i)
           IN  /\ RowAt(out'.result, i) = RowAt(out.result, best)
               /\ out.hasRight => RowAt(out'.right, i) = RowAt(out.right, best)
               /\ out'.swapCount = out.swapCount + (IF best # i THEN 1 ELSE 0)
               /\ \A k \in (i + 1)..(A.rows - 1) : Get(out'.result, k, i) = Zero]_vars

\* rows 1 and 2 tie in column 0: row 1 is taken, one swap is counted
PivotStepWitness ==
    /\ op = "forward"
    /\ A = FromRows(3, 3, <<0, 1, 1, 1, 0, 1, 1, 1, 0>>)
    /\ args.i = 1
    /\ RowAt(out.result, 0) = RowAt(A, 1)
    /\ out.swapCount = 1

\* C27: whenever gaussianElimination with fullReduction succeeds, every
\* non-zero row of the result has leading entry exactly 1, that entry is the
\* only non-zero entry of its column, and an iteration that meets an
\* all-zero row leaves working copy and companion unchanged.
FullReductionGivesRREF ==
    [][/\ (op' = "done" /\ args'.fullReduction) => LeadingOnes(out'.result)
       /\ (op = "reduce" /\ args'.i # args.i /\ Lead(out.result, args.i) = A.cols)
            => out' = out]_vars

\* a 3 x 2 matrix of rank 2: two leading ones and a zero row
FullReductionWitness ==
    /\ op = "done"
    /\ args.fullReduction
    /\ A = FromRows(3, 2, <<0, 1, 1, 1, 1, 1>>)
    /\ out.result = FromRows(3, 2, <<1, 0, 0, 1, 0, 0>>)

\* C28: with a companion R, every row operation on the working copy is
\* applied to R as well, so at every step of a call that does not fail each
\* x with A * x == R (values at the call) satisfies result * x == R
\* (current values).
CompanionInLockStep ==
    (InEngine /\ out.hasRight) =>
        \A x \in XVectors(A.cols) :
            Satisfies(A, x, b) => Satisfies(out.result, x, out.right)

\* a finished reduction that changed the companion of a solvable system
CompanionWitness ==
    /\ op = "done"
    /\ out.hasRight
    /\ out.right # b
    /\ A.rows = 2 /\ A.cols = 2
    /\ \E x \in XVectors(A.cols) : Satisfies(A, x, b)


\* C30: a Workspace operation that returns false leaves the workspace as it was
\* before the call (the same names mapped to the same matrices), and rankMatrix,
\* determinantMatrix, showMatrix and listMatrices never change it.
WsReadOnlyOps == {"rankMatrix", "determinantMatrix", "showMatrix", "listMatrices"}

FailureLeavesWorkspace ==
    [][/\ out' = "false" => workspace' = workspace
       /\ op' \in WsReadOnlyOps => workspace' = workspace]_vars

====
